---- MODULE Spec2Model ----
(***************************************************************************)
(* Model of smc-hub/auth.ts: PassportManager.passport_login, the steps it  *)
(* awaits in order, the remember-me token format and generate_hash.        *)
(*                                                                         *)
(* A string is a sequence of symbols.  A symbol stands for a run of        *)
(* characters that holds no '$'; "$" is a symbol of its own, so split and  *)
(* join on '$' act on these sequences as String.split and Array.join act   *)
(* on the characters.                                                      *)
(***************************************************************************)
EXTENDS Integers, Sequences, FiniteSets, TLC

(* ------------------------------ bounds -------------------------------- *)

\* passport_login calls in one behaviour
MaxAttempts == 2
\* accounts an administrator bans during one behaviour
MaxBans == 1
\* remember-me records whose TTL elapses during one behaviour
MaxExpired == 1
\* symbols per field of a token in the codec specification
MaxFieldLen == 1
\* fields per token in the codec specification
MaxFields == 5

(* ------------------------- strings, split, join ----------------------- *)

\* JS undefined, for values that are strings otherwise
Undefined == <<"undefined">>

\* JS null, likewise
Null == <<"null">>

RECURSIVE SplitFrom(_, _, _)
\* fields of s from position i on; cur is the field being read
SplitFrom(s, i, cur) ==
  IF i > Len(s) THEN <<cur>>
  ELSE IF s[i] = "$" THEN <<cur>> \o SplitFrom(s, i + 1, <<>>)
  ELSE SplitFrom(s, i + 1, Append(cur, s[i]))

\* a split that drops empty fields
SplitNoEmpty(s) == SelectSeq(SplitFrom(s, 1, <<>>), LAMBDA f : f # <<>>)

\* value.split("$")
Split(s) == SplitFrom(s, 1, <<>>)

RECURSIVE Join(_)
\* fields.join("$")
Join(fields) ==
  IF Len(fields) = 0 THEN <<>>
  ELSE IF Len(fields) = 1 THEN fields[1]
  ELSE fields[1] \o <<"$">> \o Join(Tail(fields))

\* the characters trim() removes at both ends; a space and a tab stand
\* for them
Whitespace == {" ", "\t"}

\* the position of the first c in s, counted from 0; -1 when there is none
lastIndexOf_first(s, c) ==
  IF \E k \in 1..Len(s) : s[k] = c
  THEN (CHOOSE k \in 1..Len(s) : s[k] = c /\ \A j \in 1..(k - 1) : s[j] # c) - 1
  ELSE -1

\* s.lastIndexOf(c): counted from 0; -1 when there is none
lastIndexOf(s, c) ==
  IF \E k \in 1..Len(s) : s[k] = c
  THEN (CHOOSE k \in 1..Len(s) : s[k] = c /\ \A j \in (k + 1)..Len(s) : s[j] # c) - 1
  ELSE -1

\* s.slice(i, j) for 0 <= i <= j <= s.length
slice(s, i, j) == SubSeq(s, i + 1, j)

RECURSIVE trimStart(_)
trimStart(s) ==
  IF Len(s) > 0 /\ s[1] \in Whitespace THEN trimStart(Tail(s)) ELSE s

RECURSIVE trimEnd(_)
trimEnd(s) ==
  IF Len(s) > 0 /\ s[Len(s)] \in Whitespace
  THEN trimEnd(SubSeq(s, 1, Len(s) - 1)) ELSE s

\* s.trim()
trim(s) == trimEnd(trimStart(s))

(* ------------------------------ hashing ------------------------------- *)

\* algorithms crypto.createHmac accepts; any other makes it throw
SupportedAlgorithms == {<<"sha512">>, <<"sha1">>}

HASH_ALGORITHM == <<"sha512">>

\* the iteration policy of new hashes.  The source sets 1000 and promises
\* that any value may be configured; the model runs the loop with this one.
HASH_ITERATIONS == 2

Digits == <<"0", "1", "2", "3", "4", "5", "6", "7", "8", "9">>

DigitValue(c) == (CHOOSE k \in 1..10 : Digits[k] = c) - 1

IsDigit(c) == \E k \in 1..10 : Digits[k] = c

RECURSIVE NatOfDigits(_)
NatOfDigits(s) ==
  IF Len(s) = 0 THEN 0
  ELSE 10 * NatOfDigits(SubSeq(s, 1, Len(s) - 1)) + DigitValue(s[Len(s)])

RECURSIVE DigitsOfNat(_)
DigitsOfNat(n) ==
  IF n < 10 THEN <<Digits[n + 1]>>
  ELSE Append(DigitsOfNat(n \div 10), Digits[(n % 10) + 1])

\* a number written without its sign
NumberToString_unsigned(n) == IF n < 0 THEN DigitsOfNat(-n) ELSE DigitsOfNat(n)

\* String(n) for an integer n
NumberToString(n) == IF n < 0 THEN <<"-">> \o DigitsOfNat(-n) ELSE DigitsOfNat(n)

\* a string JS reads as an integer: optional '-', then digits
IsNumeric(s) ==
  \/ Len(s) >= 1 /\ \A k \in 1..Len(s) : IsDigit(s[k])
  \/ Len(s) >= 2 /\ s[1] = "-" /\ \A k \in 2..Len(s) : IsDigit(s[k])

\* Number(s) for such a string
StringToNumber(s) ==
  IF s[1] = "-" THEN -NatOfDigits(Tail(s)) ELSE NatOfDigits(s)

\* crypto.createHmac(algorithm, salt).update(data).digest("hex"): a string
\* without '$' that determines algorithm, salt and data
Hmac(algorithm, salt, data) ==
  <<"hmac(">> \o algorithm \o <<",">> \o salt \o <<",">> \o data \o <<")">>

RECURSIVE HashLoop(_, _, _, _, _, _)
\* the for loop of generate_hash from counter i on
HashLoop(algorithm, salt, i, end, asc, hash) ==
  IF (asc /\ i <= end) \/ (~asc /\ i >= end)
  THEN HashLoop(algorithm, salt, IF asc THEN i + 1 ELSE i - 1, end, asc,
                Hmac(algorithm, salt, hash))
  ELSE hash

\* the values generate_hash is given for iterations: a number, a string
\* (as check_remember_me_cookie gives it) or undefined
Num(n) == [type |-> "number", n |-> n, s |-> <<>>]

Str(s) == [type |-> "string", n |-> 0, s |-> s]

NoIterations == [type |-> "undefined", n |-> 0, s |-> <<>>]

\* !v for such a value: 0, "" and undefined are falsy
Falsy(v) ==
  \/ v.type = "undefined"
  \/ v.type = "number" /\ v.n = 0
  \/ v.type = "string" /\ v.s = <<>>

\* such a value read as a number is not NaN
IsNumber(v) == v.type = "number" \/ (v.type = "string" /\ IsNumeric(v.s))

\* Number(v) for such a value
ToNumber(v) == IF v.type = "number" THEN v.n ELSE StringToNumber(v.s)

\* "" + v
StringOf(v) == IF v.type = "number" THEN NumberToString(v.n) ELSE v.s

\* generate_hash that lets any iterations below 1 count as 1
generate_hash_floor(algorithm, salt, iterations, password) ==
  IF algorithm \in {Undefined, Null} \/ salt \in {Undefined, Null}
  THEN [ok |-> FALSE, hash |-> <<>>]
  ELSE IF algorithm \notin SupportedAlgorithms THEN [ok |-> FALSE, hash |-> <<>>]
  ELSE
    LET its == IF Falsy(iterations) \/ (IsNumber(iterations) /\ ToNumber(iterations) < 1)
               THEN Num(1) ELSE iterations
        digest ==
          IF IsNumber(its)
          THEN HashLoop(algorithm, salt, 1, ToNumber(its), 1 <= ToNumber(its),
                        password)
          ELSE password
    IN [ok |-> TRUE, hash |-> Join(<<algorithm, salt, StringOf(its), digest>>)]

\* generate_hash that falls back to the algorithm and a salt of new hashes
generate_hash_fallback(algorithm, salt, iterations, password) ==
  LET alg == IF algorithm \in {Undefined, Null} THEN HASH_ALGORITHM ELSE algorithm
      slt == IF salt \in {Undefined, Null} THEN <<"p">> ELSE salt
  IN IF alg \notin SupportedAlgorithms THEN [ok |-> FALSE, hash |-> <<>>]
     ELSE
       LET its == IF Falsy(iterations) THEN Num(1) ELSE iterations
           digest ==
             IF IsNumber(its)
             THEN HashLoop(alg, slt, 1, ToNumber(its), 1 <= ToNumber(its),
                           password)
             ELSE password
       IN [ok |-> TRUE, hash |-> Join(<<alg, slt, StringOf(its), digest>>)]

\* generate_hash that hashes with the iterations of new hashes whatever
\* iterations it is given
generate_hash_policy(algorithm, salt, iterations, password) ==
  IF algorithm \in {Undefined, Null} \/ salt \in {Undefined, Null}
  THEN [ok |-> FALSE, hash |-> <<>>]
  ELSE IF algorithm \notin SupportedAlgorithms THEN [ok |-> FALSE, hash |-> <<>>]
  ELSE [ok |-> TRUE,
        hash |-> Join(<<algorithm, salt, NumberToString(HASH_ITERATIONS),
                        HashLoop(algorithm, salt, 1, HASH_ITERATIONS, TRUE,
                                 password)>>)]

\* generate_hash; [ok |-> FALSE] when it throws.  A string that is no
\* number compares false with every number, so the loop does not run;
\* createHmac, called in the loop, throws for an algorithm it does not know.
generate_hash(algorithm, salt, iterations, password) ==
  IF algorithm \in {Undefined, Null} \/ salt \in {Undefined, Null}
  THEN [ok |-> FALSE, hash |-> <<>>]
  ELSE
    LET its == IF Falsy(iterations) THEN Num(1) ELSE iterations IN
    IF IsNumber(its) /\ algorithm \notin SupportedAlgorithms
    THEN [ok |-> FALSE, hash |-> <<>>]
    ELSE
      LET digest ==
            IF IsNumber(its)
            THEN HashLoop(algorithm, salt, 1, ToNumber(its), 1 <= ToNumber(its),
                          password)
            ELSE password
      IN [ok |-> TRUE, hash |-> Join(<<algorithm, salt, StringOf(its), digest>>)]

\* password_hash: the library's generate, of which generate_hash is the copy
password_hash(password, salt) ==
  generate_hash(HASH_ALGORITHM, salt, Num(HASH_ITERATIONS), password).hash

(* ----------------------------- the state ------------------------------ *)

VARIABLES
  accounts,     \* accounts table: records [account_id, email_address]
  passports,    \* links: records [strategy, id, account_id]
  remember_me,  \* remember-me records: [hash, account_id, ttl, expired]
  banned,       \* account ids with the banned flag
  api_keys,     \* account id -> number of its current API key, 0 for none
  att,          \* attempt -> opts, locals and response of one passport_login
  codec,        \* one token of the codec specification: fields, value, result
  hashed,       \* one call of generate_hash: arguments and what it returned
  names,        \* opts.first_name, last_name, full_name of one passport_login
  manager,      \* one PassportManager, the settings it reads, what it served
  checked,      \* one call of is_password_correct and the calls of its cb
  jupyter       \* one JupyterStore and one call of its get_cell_id

vars == <<accounts, passports, remember_me, banned, api_keys, att, codec, hashed, names, manager, checked, jupyter>>

Attempts == 1..MaxAttempts

\* no account id: undefined
NoAccount == 0

\* opts.emails == null
NoEmails == <<"undefined">>

\* no email address: undefined
NoEmail == "undefined"

Identities == {<<"github", "42">>, <<"google", "99">>}

\* opts.emails as the strategy hands them over
\* emails per assertion
MaxEmails == 3

RawEmailLists ==
  {NoEmails, <<>>, <<"a@x.com">>, <<"B@x.com", "A@x.com">>,
   <<"b@x.com", "not an email">>, <<"not an email">>}

\* misc.is_valid_email_address
is_valid_email_address(x) ==
  x \in {"a@x.com", "A@x.com", "b@x.com", "B@x.com", "c@x.com"}

\* a lower-casing that returns the email as given
toLowerCase_as_given(x) == x

\* x.toLowerCase()
toLowerCase(x) ==
  CASE x = "A@x.com" -> "a@x.com"
    [] x = "B@x.com" -> "b@x.com"
    [] OTHER -> x

RECURSIVE valid_emails(_)
\* the loop of passport_login that keeps the valid emails, lower-cased
valid_emails(emails) ==
  IF emails = NoEmails THEN NoEmails
  ELSE IF Len(emails) = 0 THEN <<>>
  ELSE (IF is_valid_email_address(Head(emails))
        THEN <<toLowerCase(Head(emails))>> ELSE <<>>)
       \o valid_emails(Tail(emails))

\* uuid.v4(): the k-th session id of a behaviour
SessionId(k) == [i \in 1..k |-> "u"]

\* salts the hash library draws
Salts == {<<"p">>, <<"q">>}

\* the ttl handle_new_sign_in gives save_remember_me, in seconds
ttl == 24 * 3600 * 30

\* a cookie value that carries the stored hash in place of the session id
remember_me_value_of_hash(hash_session_id, session_id) ==
  LET x == Split(hash_session_id) IN Join(<<x[1], x[2], x[3], x[4]>>)

\* the cookie value handle_new_sign_in builds from the stored hash
remember_me_value(hash_session_id, session_id) ==
  LET x == Split(hash_session_id) IN Join(<<x[1], x[2], x[3], session_id>>)

(* ---------------------------- the datastore --------------------------- *)

\* database.get_remember_me: the account of the record stored under hash
get_remember_me(hash) ==
  IF \E r \in remember_me : r.hash = hash
  THEN (CHOOSE r \in remember_me : r.hash = hash).account_id
  ELSE NoAccount

\* what database.get_remember_me may answer for hash: the account of a
\* record that has not expired, nothing when no record is stored, and
\* either of the two for a record whose TTL has elapsed and that the store
\* still holds
get_remember_me_answers(hash) ==
  IF \E r \in remember_me : r.hash = hash /\ r.expired
  THEN {get_remember_me(hash), NoAccount}
  ELSE {get_remember_me(hash)}

\* the store holds a record under hash whose TTL has elapsed
is_expired(hash) == \E r \in remember_me : r.hash = hash /\ r.expired

\* database.passport_exists: the account the pair is linked to
passport_exists(strategy, id) ==
  IF \E p \in passports : p.strategy = strategy /\ p.id = id
  THEN (CHOOSE p \in passports : p.strategy = strategy /\ p.id = id).account_id
  ELSE NoAccount

\* a store that accepts a second link for a pair
link_is_free_unchecked(strategy, id) == TRUE

\* the store's uniqueness rule for links: may this pair be linked now?
link_is_free(strategy, id) == passport_exists(strategy, id) = NoAccount

\* database.account_exists: the account with this email address
account_exists(email_address) ==
  IF \E a \in accounts : a.email_address = email_address
  THEN (CHOOSE a \in accounts : a.email_address = email_address).account_id
  ELSE NoAccount

\* database.is_banned_user
is_banned_user(account_id) == account_id \in banned

\* the id database.create_account gives the next account
new_account_id == Cardinality(accounts) + 1

AccountIds == 1..(MaxAttempts + 2)

(* ------------------------ one passport_login -------------------------- *)

\* an attempt that has not been called yet
IdleAttempt ==
  [pc |-> "idle", strategy |-> "", id |-> "", emails |-> NoEmails,
   remember_me_cookie |-> <<>>, get_api_key |-> FALSE,
   account_id |-> NoAccount, email_address |-> NoEmail,
   has_valid_remember_me |-> FALSE, new_account_created |-> FALSE,
   action |-> "undefined", api_key |-> 0, target |-> "login",
   probes |-> <<>>, hash_session_id |-> <<>>, remember_me_value |-> <<>>,
   sent |-> "none", redirected |-> FALSE, cookie_set |-> <<>>,
   api_cookie_deleted |-> FALSE,
   \* history of the attempt, read by the properties only
   pre_link |-> NoAccount, taken |-> {}, rm_account |-> NoAccount,
   found |-> NoAccount, linked |-> FALSE, probed |-> 0, saved |-> FALSE,
   is_banned |-> FALSE, rm_expired |-> FALSE,
   \* the probe whose code behind the await ran first; the answers sent
   first_probe |-> 0, responses |-> 0,
   \* opts.emails as given; the email_address given to create_passport
   raw_emails |-> NoEmails, passport_email |-> NoEmail,
   \* the datastore calls of the attempt that were answered, in order
   db |-> <<>>]

\* the attempt after the datastore answered its call
Answered(a, call) == [a EXCEPT !.db = Append(@, call)]

\* the text of an error the datastore reports for a call it could not serve
StoreError == "store error"

\* the catch block of passport_login: res.send for an error, res.redirect
\* for a thrown value that is falsy
Catch(a, err) ==
  IF err # "" THEN [a EXCEPT !.pc = "done", !.sent = err, !.responses = @ + 1]
  ELSE [a EXCEPT !.pc = "done", !.redirected = TRUE, !.responses = @ + 1]

\* the end of the try block when no step throws: the catch block is not
\* entered, so neither res.send nor res.redirect is called
Return(a) == [a EXCEPT !.pc = "done"]

\* handle_new_sign_in without its return for a caller with a valid cookie
handle_new_sign_in_always(a, session_id, salt) ==
  IF a.account_id = NoAccount THEN Catch(a, "locals.account_id is null")
  ELSE LET hash_session_id == password_hash(session_id, salt)
       IN [a EXCEPT !.pc = "save_remember_me",
                    !.hash_session_id = hash_session_id,
                    !.remember_me_value = remember_me_value(hash_session_id, session_id)]

\* handle_new_sign_in up to its await of save_remember_me
handle_new_sign_in(a, session_id, salt) ==
  IF a.has_valid_remember_me THEN Return(a)
  ELSE IF a.account_id = NoAccount THEN Catch(a, "locals.account_id is null")
  ELSE LET hash_session_id == password_hash(session_id, salt)
       IN [a EXCEPT !.pc = "save_remember_me",
                    !.hash_session_id = hash_session_id,
                    !.remember_me_value = remember_me_value(hash_session_id, session_id)]

\* a login that goes on to handle_new_sign_in whatever is_banned_user said
after_ban_check_ignored(a, is_banned, session_id, salt) ==
  handle_new_sign_in([a EXCEPT !.is_banned = is_banned], session_id, salt)

\* a ban check that reports the ban and lets handle_new_sign_in run
after_ban_check_then_sign_in(a, is_banned, session_id, salt) ==
  IF is_banned
  THEN [handle_new_sign_in(a, session_id, salt) EXCEPT !.sent = "BANNED",
                                                         !.is_banned = TRUE]
  ELSE handle_new_sign_in(a, session_id, salt)

\* passport_login after is_banned_user answered: is_user_banned throws for
\* a banned account, handle_new_sign_in runs for any other
after_ban_check(a, is_banned, session_id, salt) ==
  IF is_banned THEN Catch([a EXCEPT !.is_banned = TRUE], "BANNED")
  ELSE handle_new_sign_in(a, session_id, salt)

\* a maybe_provision_api_key that does not look at the request cookie
maybe_provision_api_key_always(a) ==
  [a EXCEPT !.pc = "api_key_action",
            !.action = IF a.new_account_created THEN "regenerate" ELSE "get"]

\* maybe_record_sign_in (fire and forget, nothing awaited) and
\* maybe_provision_api_key up to its first await
maybe_provision_api_key(a) ==
  IF ~a.get_api_key THEN [a EXCEPT !.pc = "is_user_banned"]
  ELSE [a EXCEPT !.pc = "api_key_action",
                 !.action = IF a.new_account_created THEN "regenerate" ELSE "get"]

\* maybe_create_account up to its await of create_account
maybe_create_account(a) ==
  IF a.account_id # NoAccount THEN maybe_provision_api_key(a)
  ELSE [a EXCEPT !.pc = "create_account",
                 !.email_address =
                    IF a.emails # NoEmails
                    THEN (IF Len(a.emails) > 0 THEN a.emails[1] ELSE NoEmail)
                    ELSE a.email_address]

\* check_existing_emails that probes although the account is known
check_existing_emails_always(a) ==
  IF a.emails # NoEmails /\ Len(a.emails) > 0
  THEN [a EXCEPT !.pc = "check_existing_emails",
                 !.probes = [i \in 1..Len(a.emails) |->
                                [st |-> "inflight", result |-> NoAccount]],
                 !.probed = Len(a.emails)]
  ELSE maybe_create_account(a)

\* check_existing_emails up to Promise.all: one probe per email is issued
check_existing_emails(a) ==
  IF ~(a.account_id # NoAccount \/ a.emails = NoEmails)
  THEN IF Len(a.emails) = 0 THEN maybe_create_account(a)
       ELSE [a EXCEPT !.pc = "check_existing_emails",
                      !.probes = [i \in 1..Len(a.emails) |->
                                     [st |-> "inflight", result |-> NoAccount]],
                      !.probed = Len(a.emails)]
  ELSE maybe_create_account(a)

\* check_passport_exists without the throw for a pair of another account
check_passport_exists_rebind(a, _account_id) ==
  IF _account_id = NoAccount /\ a.has_valid_remember_me /\ a.account_id # NoAccount
  THEN [a EXCEPT !.pc = "create_passport", !.found = _account_id]
  ELSE IF a.has_valid_remember_me
  THEN check_existing_emails([a EXCEPT !.found = _account_id])
  ELSE check_existing_emails([a EXCEPT !.found = _account_id,
                                       !.account_id = _account_id])

\* check_passport_exists that links the pair whenever the caller has a
\* valid cookie and the pair is not the caller's
check_passport_exists_relink(a, _account_id) ==
  IF a.has_valid_remember_me /\ a.account_id # _account_id
  THEN [a EXCEPT !.pc = "create_passport", !.found = _account_id]
  ELSE IF a.has_valid_remember_me
  THEN check_existing_emails([a EXCEPT !.found = _account_id])
  ELSE check_existing_emails([a EXCEPT !.found = _account_id,
                                       !.account_id = _account_id])

\* check_passport_exists after passport_exists answered _account_id
check_passport_exists(a, _account_id) ==
  IF _account_id = NoAccount /\ a.has_valid_remember_me /\ a.account_id # NoAccount
  THEN [a EXCEPT !.pc = "create_passport", !.found = _account_id,
                 !.passport_email =
                    IF a.emails # NoEmails /\ Len(a.emails) > 0
                    THEN a.emails[1] ELSE NoEmail]
  ELSE IF a.has_valid_remember_me /\ a.account_id # _account_id
  THEN Catch([a EXCEPT !.found = _account_id],
                 "already attached to another account")
  ELSE IF a.has_valid_remember_me
  THEN check_existing_emails([a EXCEPT !.found = _account_id])
  ELSE check_existing_emails([a EXCEPT !.found = _account_id,
                                       !.account_id = _account_id])

\* check_remember_me_cookie that rejects the login when generate_hash throws
check_remember_me_cookie_rejecting(a) ==
  IF a.remember_me_cookie = <<>> THEN [a EXCEPT !.pc = "passport_exists"]
  ELSE LET x == Split(a.remember_me_cookie) IN
       IF Len(x) # 4 THEN Catch(a, "badly formatted remember_me cookie")
       ELSE IF generate_hash(x[1], x[2], Str(x[3]), x[4]).ok
       THEN [a EXCEPT !.pc = "get_remember_me"]
       ELSE Catch(a, "unable to generate hash")

\* check_remember_me_cookie that reads a value of another field count as
\* no cookie
check_remember_me_cookie_lenient(a) ==
  IF a.remember_me_cookie = <<>> THEN [a EXCEPT !.pc = "passport_exists"]
  ELSE LET x == Split(a.remember_me_cookie) IN
       IF Len(x) # 4 THEN [a EXCEPT !.pc = "passport_exists"]
       ELSE IF generate_hash(x[1], x[2], Str(x[3]), x[4]).ok
       THEN [a EXCEPT !.pc = "get_remember_me"]
       ELSE [a EXCEPT !.pc = "passport_exists"]

\* check_remember_me_cookie up to its await of get_remember_me
check_remember_me_cookie(a) ==
  IF a.remember_me_cookie = <<>> THEN [a EXCEPT !.pc = "passport_exists"]
  ELSE LET x == Split(a.remember_me_cookie) IN
       IF Len(x) # 4 THEN Catch(a, "badly formatted remember_me cookie")
       ELSE IF generate_hash(x[1], x[2], Str(x[3]), x[4]).ok
       THEN [a EXCEPT !.pc = "get_remember_me"]
       ELSE [a EXCEPT !.pc = "passport_exists"]

\* the cookie values a client may hold: the one of the first account's
\* own sign-in and those set by earlier attempts
InitialCookie == remember_me_value(password_hash(SessionId(1), <<"p">>), SessionId(1))

ClientCookies == {InitialCookie} \cup {att[t].cookie_set : t \in Attempts}

\* cookie values no sign-in has set: one of three fields, one of four
\* fields whose hash no remember-me record was stored under
ForgedCookies ==
  {Join(<<HASH_ALGORITHM, <<"p">>, NumberToString(HASH_ITERATIONS)>>),
   Join(<<HASH_ALGORITHM, <<"q">>, NumberToString(HASH_ITERATIONS), <<"guess">>>>)}

(* ------------------------------ actions ------------------------------- *)

\* the store holds one account, made by the sign-up form, whose owner
\* signed in with "remember me"; no passport_login was called yet
InitStore ==
  /\ accounts = {[account_id |-> 1, email_address |-> "a@x.com"]}
  /\ passports = {}
  /\ remember_me = {[hash |-> password_hash(SessionId(1), <<"p">>), account_id |-> 1,
                     ttl |-> ttl, expired |-> FALSE]}
  /\ banned = {}
  /\ api_keys = [a \in AccountIds |-> 0]
  /\ att = [t \in Attempts |-> IdleAttempt]

\* no token is coded
NoCodec ==
  [pc |-> "unused", fields |-> <<>>, value |-> <<>>, x |-> <<>>, error |-> "none"]

\* no call of generate_hash on its own
NoCall ==
  [pc |-> "unused", algorithm |-> <<>>, salt |-> <<>>, iterations |-> NoIterations,
   password |-> <<>>, result |-> [ok |-> FALSE, hash |-> <<>>],
   again |-> [ok |-> FALSE, hash |-> <<>>], other |-> {}]

\* no names are derived
NoNames ==
  [pc |-> "unused", full_name |-> Undefined, first_name |-> Undefined,
   last_name |-> Undefined, given |-> <<Undefined, Undefined>>]

\* the strategies init sets up, in the order of its calls
StrategyConfs == <<"google", "github", "facebook", "twitter">>

Strategies == {StrategyConfs[k] : k \in 1..Len(StrategyConfs)}

\* no PassportManager is constructed
NoManager ==
  [pc |-> "unused", site_conf |-> "null", configured |-> {},
   strategies |-> <<>>, auth_url |-> "undefined", route |-> FALSE,
   pending |-> {}, used |-> {}, failed |-> {},
   served |-> <<>>, served_at |-> "never", serves |-> 0]

\* is_password_correct is not called
NoCheck ==
  [pc |-> "unused", password |-> <<>>, password_hash |-> Undefined,
   account_id |-> NoAccount, email_address |-> NoEmail,
   allow_empty_password |-> FALSE, stored |-> Undefined, loaded |-> FALSE,
   cbs |-> <<>>]

\* no cell id: undefined
NoCell == "undefined"

\* no JupyterStore
NoStore ==
  [pc |-> "unused", cell_list |-> [known |-> FALSE, ids |-> <<>>],
   cur_id |-> NoCell, delta |-> 0, id |-> NoCell, result |-> NoCell]

Init ==
  /\ InitStore
  /\ codec = NoCodec
  /\ hashed = NoCall
  /\ names = NoNames
  /\ manager = NoManager
  /\ checked = NoCheck
  /\ jupyter = NoStore

\* passport_login from its call to the first await, for an assertion whose
\* emails are one of email_lists: the cookies are read, the API-key cookie
\* is deleted, the emails are filtered
StartWith(t, email_lists, forged) ==
  /\ att[t].pc = "idle"
  /\ t > 1 => att[t - 1].pc # "idle"
  /\ \E ident \in Identities, emails \in email_lists,
        cookie \in ClientCookies \cup forged \cup {<<>>},
        get_api_key \in BOOLEAN :
       att' = [att EXCEPT ![t] =
                 check_remember_me_cookie(
                   [IdleAttempt EXCEPT !.strategy = ident[1], !.id = ident[2],
                                       !.emails = valid_emails(emails),
                                       !.raw_emails = emails,
                                       !.remember_me_cookie = cookie,
                                       !.get_api_key = get_api_key,
                                       !.api_cookie_deleted = get_api_key,
                                       !.pre_link = passport_exists(ident[1], ident[2]),
                                       !.taken =
                                          {e \in {"a@x.com", "b@x.com", "c@x.com"} :
                                             /\ account_exists(e) # NoAccount
                                             /\ valid_emails(emails) # NoEmails
                                             /\ \E i \in 1..Len(valid_emails(emails)) :
                                                  valid_emails(emails)[i] = e}])]
  /\ UNCHANGED <<accounts, passports, remember_me, banned, api_keys, codec, hashed, names, manager, checked, jupyter>>

\* passport_login called with one of the assertions of RawEmailLists
Start(t) == StartWith(t, RawEmailLists, ForgedCookies)

\* check_remember_me_cookie: get_remember_me answers
GetRememberMe(t) ==
  /\ att[t].pc = "get_remember_me"
  /\ LET x == Split(att[t].remember_me_cookie)
         hash == generate_hash(x[1], x[2], Str(x[3]), x[4]).hash
         a == [Answered(att[t], "get_remember_me") EXCEPT
                 !.rm_expired = is_expired(hash)]
     IN \E account_id \in get_remember_me_answers(hash) :
          att' = [att EXCEPT ![t] =
                    IF account_id # NoAccount
                    THEN [a EXCEPT !.pc = "passport_exists",
                                   !.account_id = account_id,
                                   !.has_valid_remember_me = TRUE,
                                   !.rm_account = account_id]
                    ELSE Catch(a, "no valid remember_me token")]
  /\ UNCHANGED <<accounts, passports, remember_me, banned, api_keys, codec, hashed, names, manager, checked, jupyter>>

\* check_remember_me_cookie: get_remember_me fails with an error of the
\* store; nothing catches the rejected await before passport_login does
GetRememberMeFails(t) ==
  /\ att[t].pc = "get_remember_me"
  /\ att' = [att EXCEPT ![t] =
               Catch(Answered(att[t], "get_remember_me"), StoreError)]
  /\ UNCHANGED <<accounts, passports, remember_me, banned, api_keys, codec, hashed, names, manager, checked, jupyter>>

\* check_passport_exists: passport_exists answers
PassportExists(t) ==
  /\ att[t].pc = "passport_exists"
  /\ att' = [att EXCEPT ![t] =
               check_passport_exists(Answered(att[t], "passport_exists"),
                                     passport_exists(att[t].strategy, att[t].id))]
  /\ UNCHANGED <<accounts, passports, remember_me, banned, api_keys, codec, hashed, names, manager, checked, jupyter>>

\* check_passport_exists: create_passport answers; the store refuses a
\* second link for a pair
CreatePassport(t) ==
  /\ att[t].pc = "create_passport"
  /\ LET a == Answered(att[t], "create_passport") IN
     IF link_is_free(a.strategy, a.id)
     THEN /\ passports' = passports \cup
                {[strategy |-> a.strategy, id |-> a.id, account_id |-> a.account_id]}
          /\ att' = [att EXCEPT ![t] = check_existing_emails([a EXCEPT !.linked = TRUE])]
     ELSE /\ passports' = passports
          /\ att' = [att EXCEPT ![t] = Catch(a, "AlreadyExists")]
  /\ UNCHANGED <<accounts, remember_me, banned, api_keys, codec, hashed, names, manager, checked, jupyter>>

\* check_existing_emails: account_exists answers probe i
ProbeAnswer(t, i) ==
  /\ i \in 1..Len(att[t].probes)
  /\ att[t].probes[i].st = "inflight"
  /\ att' = [att EXCEPT ![t] =
               [Answered(att[t], "account_exists") EXCEPT !.probes[i] =
                  [st |-> "answered",
                   result |-> account_exists(toLowerCase(att[t].emails[i]))]]]
  /\ UNCHANGED <<accounts, passports, remember_me, banned, api_keys, codec, hashed, names, manager, checked, jupyter>>

\* probes that sign the caller in to the account a matching email belongs to
after_probe_merge(a, i) ==
  LET _account_id == a.probes[i].result
      done == [a EXCEPT !.probes[i].st = "done"]
      all_done == \A j \in 1..Len(done.probes) : done.probes[j].st = "done"
  IN IF a.account_id # NoAccount THEN
       (IF a.pc = "check_existing_emails" /\ all_done
        THEN maybe_create_account(done) ELSE done)
     ELSE IF _account_id = NoAccount THEN
       (IF a.pc = "check_existing_emails"
        THEN Catch(done, "check_email: no _account_id") ELSE done)
     ELSE LET hit == [done EXCEPT !.account_id = _account_id,
                                  !.email_address = toLowerCase(a.emails[i])]
          IN IF a.pc = "check_existing_emails" /\ all_done
             THEN maybe_create_account(hit) ELSE hit

\* the attempt after probe i ran its code behind the await; Promise.all
\* rejects on the first probe that throws and resolves when none did
after_probe(a, i) ==
  LET _account_id == a.probes[i].result
      done == [a EXCEPT !.probes[i].st = "done"]
  IN IF a.account_id # NoAccount THEN
       (IF a.pc = "check_existing_emails"
             /\ \A j \in 1..Len(done.probes) : done.probes[j].st = "done"
        THEN maybe_create_account(done) ELSE done)
     ELSE IF _account_id = NoAccount THEN
       (IF a.pc = "check_existing_emails"
        THEN Catch(done, "check_email: no _account_id") ELSE done)
     ELSE LET hit == [done EXCEPT !.account_id = _account_id,
                                  !.email_address = toLowerCase(a.emails[i])]
          IN IF a.pc = "check_existing_emails"
             THEN Catch(hit, "There is already an account with email address")
             ELSE hit

\* check_existing_emails: the code after the await of probe i
ProbeContinue(t, i) ==
  /\ i \in 1..Len(att[t].probes)
  /\ att[t].probes[i].st = "answered"
  /\ att' = [att EXCEPT ![t] =
               after_probe([att[t] EXCEPT !.first_probe = IF @ = 0 THEN i ELSE @], i)]
  /\ UNCHANGED <<accounts, passports, remember_me, banned, api_keys, codec, hashed, names, manager, checked, jupyter>>

\* maybe_create_account: create_account answers.  The store creates the
\* account together with its link and refuses a second link for a pair.
CreateAccount(t) ==
  /\ att[t].pc = "create_account"
  /\ LET a == Answered(att[t], "create_account") IN
     IF link_is_free(a.strategy, a.id)
     THEN /\ accounts' = accounts \cup
                {[account_id |-> new_account_id, email_address |-> a.email_address]}
          /\ passports' = passports \cup
                {[strategy |-> a.strategy, id |-> a.id, account_id |-> new_account_id]}
          /\ att' = [att EXCEPT ![t] =
                       maybe_provision_api_key(
                         [a EXCEPT !.account_id = new_account_id,
                                   !.new_account_created = TRUE])]
     ELSE /\ UNCHANGED <<accounts, passports>>
          /\ att' = [att EXCEPT ![t] = Catch(a, "AlreadyExists")]
  /\ UNCHANGED <<remember_me, banned, api_keys, codec, hashed, names, manager, checked, jupyter>>

\* an api_key_action whose missing key is taken as the key
ApiKeyAction_no_retry(t) ==
  /\ att[t].pc = "api_key_action"
  /\ LET a == Answered(att[t], "api_key_action")
         key == IF a.action = "regenerate" THEN api_keys[a.account_id] + 1
                ELSE api_keys[a.account_id]
     IN /\ api_keys' = [api_keys EXCEPT ![a.account_id] = key]
        /\ att' = [att EXCEPT ![t] =
                     [a EXCEPT !.pc = "is_user_banned", !.api_key = key,
                               !.target = "authenticated"]]
  /\ UNCHANGED <<accounts, passports, remember_me, banned, codec, hashed, names, manager, checked, jupyter>>

\* maybe_provision_api_key: the first api_key_action answers
ApiKeyAction(t) ==
  /\ att[t].pc = "api_key_action"
  /\ LET a == Answered(att[t], "api_key_action")
         key == IF a.action = "regenerate" THEN api_keys[a.account_id] + 1
                ELSE api_keys[a.account_id]
     IN /\ api_keys' = [api_keys EXCEPT ![a.account_id] = key]
        /\ att' = [att EXCEPT ![t] =
                     IF key = 0 THEN [a EXCEPT !.pc = "api_key_regenerate"]
                     ELSE [a EXCEPT !.pc = "is_user_banned", !.api_key = key,
                                    !.target = "authenticated"]]
  /\ UNCHANGED <<accounts, passports, remember_me, banned, codec, hashed, names, manager, checked, jupyter>>

\* maybe_provision_api_key: the regenerate issued when there was no key
ApiKeyRegenerate(t) ==
  /\ att[t].pc = "api_key_regenerate"
  /\ LET a == Answered(att[t], "api_key_action")
         key == api_keys[a.account_id] + 1
     IN /\ api_keys' = [api_keys EXCEPT ![a.account_id] = key]
        /\ att' = [att EXCEPT ![t] =
                     [a EXCEPT !.pc = "is_user_banned", !.api_key = key,
                               !.target = "authenticated"]]
  /\ UNCHANGED <<accounts, passports, remember_me, banned, codec, hashed, names, manager, checked, jupyter>>

\* a ban check that takes back the link of the login when it rejects
IsUserBanned_rollback(t) ==
  /\ att[t].pc = "is_user_banned"
  /\ \E salt \in Salts :
       att' = [att EXCEPT ![t] =
                 after_ban_check(Answered(att[t], "is_banned_user"),
                                 is_banned_user(att[t].account_id),
                                 SessionId(t + 1), salt)]
  /\ passports' = IF is_banned_user(att[t].account_id)
                  THEN {p \in passports :
                          ~(p.strategy = att[t].strategy /\ p.id = att[t].id)}
                  ELSE passports
  /\ UNCHANGED <<accounts, remember_me, banned, api_keys, codec, hashed, names, manager, checked, jupyter>>

\* is_user_banned, and handle_new_sign_in up to its await
IsUserBanned(t) ==
  /\ att[t].pc = "is_user_banned"
  /\ \E salt \in Salts :
       att' = [att EXCEPT ![t] =
                 after_ban_check(Answered(att[t], "is_banned_user"),
                                 is_banned_user(att[t].account_id),
                                 SessionId(t + 1), salt)]
  /\ UNCHANGED <<accounts, passports, remember_me, banned, api_keys, codec, hashed, names, manager, checked, jupyter>>

\* handle_new_sign_in: save_remember_me answers, the cookie is set
SaveRememberMe(t) ==
  /\ att[t].pc = "save_remember_me"
  /\ remember_me' = remember_me \cup
        {[hash |-> att[t].hash_session_id, account_id |-> att[t].account_id,
          ttl |-> ttl, expired |-> FALSE]}
  /\ att' = [att EXCEPT ![t] =
               Return([Answered(att[t], "save_remember_me") EXCEPT
                                     !.saved = TRUE,
                                     !.cookie_set = att[t].remember_me_value])]
  /\ UNCHANGED <<accounts, passports, banned, api_keys, codec, hashed, names, manager, checked, jupyter>>

\* the ttl of record r has passed since it was saved; the store keeps it
Expire(r) ==
  /\ Cardinality({q \in remember_me : q.expired}) < MaxExpired
  /\ r \in remember_me
  /\ ~r.expired
  /\ remember_me' = (remember_me \ {r}) \cup {[r EXCEPT !.expired = TRUE]}
  /\ UNCHANGED <<accounts, passports, banned, api_keys, att, codec, hashed, names, manager, checked, jupyter>>

\* an administrator sets the banned flag of an account
BanUser(account_id) ==
  /\ Cardinality(banned) < MaxBans
  /\ \E a \in accounts : a.account_id = account_id
  /\ account_id \notin banned
  /\ banned' = banned \cup {account_id}
  /\ UNCHANGED <<accounts, passports, remember_me, api_keys, att, codec, hashed, names, manager, checked, jupyter>>

\* the steps of login t behind its first await
Steps(t) ==
  \/ GetRememberMe(t)
  \/ GetRememberMeFails(t)
  \/ PassportExists(t)
  \/ CreatePassport(t)
  \/ \E i \in 1..MaxEmails : ProbeAnswer(t, i) \/ ProbeContinue(t, i)
  \/ CreateAccount(t)
  \/ ApiKeyAction(t)
  \/ ApiKeyRegenerate(t)
  \/ IsUserBanned(t)
  \/ SaveRememberMe(t)

Next ==
  \/ \E t \in Attempts : Start(t) \/ Steps(t)
  \/ \E account_id \in AccountIds : BanUser(account_id)
  \/ \E r \in remember_me : Expire(r)

Spec == Init /\ [][Next]_vars

(* --------------- cookies whose hash cannot be computed ---------------- *)

\* cookie values of four fields that name an algorithm createHmac does not
\* know: a guessed one, and the first account's own with another algorithm
UnhashableCookies ==
  {Join(<<<<"md0">>, <<"q">>, NumberToString(HASH_ITERATIONS), <<"guess">>>>),
   Join(<<<<"md0">>>> \o Tail(Split(InitialCookie)))}

UnhashableEmailLists == {NoEmails, <<"a@x.com">>}

\* passport_login called with such a cookie, with a cookie a sign-in has
\* set, or with none
StartUnhashable(t) == StartWith(t, UnhashableEmailLists, UnhashableCookies)

NextUnhashable ==
  \/ \E t \in Attempts : StartUnhashable(t) \/ Steps(t)
  \/ \E account_id \in AccountIds : BanUser(account_id)
  \/ \E r \in remember_me : Expire(r)

SpecUnhashable == Init /\ [][NextUnhashable]_vars

(* ------------- assertions with several registered emails -------------- *)

\* assertions with two emails of accounts, alone and behind a free email
ManyEmailLists ==
  {NoEmails, <<"B@x.com", "A@x.com">>, <<"c@x.com", "B@x.com", "a@x.com">>}

\* the store holds a second account, with another email
InitMany ==
  /\ accounts = {[account_id |-> 1, email_address |-> "a@x.com"],
                 [account_id |-> 2, email_address |-> "b@x.com"]}
  /\ passports = {}
  /\ remember_me = {[hash |-> password_hash(SessionId(1), <<"p">>), account_id |-> 1,
                     ttl |-> ttl, expired |-> FALSE]}
  /\ banned = {}
  /\ api_keys = [a \in AccountIds |-> 0]
  /\ att = [t \in Attempts |-> IdleAttempt]
  /\ codec = NoCodec
  /\ hashed = NoCall
  /\ names = NoNames
  /\ manager = NoManager
  /\ checked = NoCheck
  /\ jupyter = NoStore

\* passport_login called with one of the assertions of ManyEmailLists
StartMany(t) == StartWith(t, ManyEmailLists, ForgedCookies)

NextMany ==
  \/ \E t \in Attempts : StartMany(t) \/ Steps(t)
  \/ \E account_id \in AccountIds : BanUser(account_id)
  \/ \E r \in remember_me : Expire(r)

SpecMany == InitMany /\ [][NextMany]_vars

(* ------------------ the token format on its own ----------------------- *)

FieldSymbols == {"sha512", "1"}

\* the fields of a token: strings without '$'
Field == UNION {[1..k -> FieldSymbols] : k \in 0..MaxFieldLen}

TokenFields == UNION {[1..n -> Field] : n \in 1..MaxFields}

InitCodec ==
  /\ InitStore
  /\ \E f \in TokenFields :
       codec = [pc |-> "fields", fields |-> f, value |-> <<>>, x |-> <<>>,
                error |-> "none"]
  /\ hashed = NoCall
  /\ names = NoNames
  /\ manager = NoManager
  /\ checked = NoCheck
  /\ jupyter = NoStore

\* handle_new_sign_in builds the cookie value: the fields joined with '$'
Encode ==
  /\ codec.pc = "fields"
  /\ codec' = [codec EXCEPT !.pc = "encoded", !.value = Join(codec.fields)]
  /\ UNCHANGED <<accounts, passports, remember_me, banned, api_keys, att, hashed, names, manager, checked, jupyter>>

\* check_remember_me_cookie reads the cookie value: split, count the fields
Decode ==
  /\ codec.pc = "encoded"
  /\ LET a == check_remember_me_cookie(
                [IdleAttempt EXCEPT !.remember_me_cookie = codec.value])
     IN codec' = [codec EXCEPT !.pc = "decoded",
                               !.x = IF codec.value = <<>> THEN <<>>
                                     ELSE Split(codec.value),
                               !.error = a.sent]
  /\ UNCHANGED <<accounts, passports, remember_me, banned, api_keys, att, hashed, names, manager, checked, jupyter>>

NextCodec == Encode \/ Decode

SpecCodec == InitCodec /\ [][NextCodec]_vars

(* ------------------- a session issued, a cookie presented ------------- *)

\* the fields of the cookies presented: algorithms, salts, iterations and
\* session ids, those of issued cookies among them
PresentedFields ==
  {<<algorithm, salt, iterations, session_id>> :
     algorithm \in SupportedAlgorithms, salt \in Salts,
     iterations \in {<<>>} \cup {NumberToString(n) : n \in 0..(HASH_ITERATIONS + 1)},
     session_id \in {SessionId(k) : k \in 1..3}}

\* handle_new_sign_in for the first account, up to its await
SignIn ==
  /\ att[1].pc = "idle"
  /\ \E session_id \in {SessionId(2), SessionId(3)}, salt \in Salts :
       att' = [att EXCEPT ![1] =
                 handle_new_sign_in([IdleAttempt EXCEPT !.strategy = "github",
                                                        !.id = "42",
                                                        !.account_id = 1],
                                    session_id, salt)]
  /\ UNCHANGED <<accounts, passports, remember_me, banned, api_keys, codec, hashed, names, manager, checked, jupyter>>

\* a later passport_login reads a cookie of four fields, up to its await
Present ==
  /\ att[1].pc = "done"
  /\ att[2].pc = "idle"
  /\ \E f \in PresentedFields :
       att' = [att EXCEPT ![2] =
                 check_remember_me_cookie(
                   [IdleAttempt EXCEPT !.strategy = "github", !.id = "42",
                                       !.remember_me_cookie = Join(f)])]
  /\ UNCHANGED <<accounts, passports, remember_me, banned, api_keys, codec, hashed, names, manager, checked, jupyter>>

NextSession == SignIn \/ SaveRememberMe(1) \/ Present \/ GetRememberMe(2)

SpecSession == Init /\ [][NextSession]_vars

(* ------------------------- PassportManager.init ----------------------- *)

MaxServes == 2

\* the settings of the site: none, settings without auth, settings with auth
SiteConfs == {"null", "no auth", "auth"}

\* the code units of the lower-case letters, in their order
Letters ==
  <<"a", "b", "c", "d", "e", "f", "g", "h", "i", "j", "k", "l", "m",
    "n", "o", "p", "q", "r", "s", "t", "u", "v", "w", "x", "y", "z">>

CodeUnit(c) == CHOOSE k \in 1..Len(Letters) : Letters[k] = c

\* the characters of a strategy name
Spelling(name) ==
  CASE name = "google" -> <<"g", "o", "o", "g", "l", "e">>
    [] name = "github" -> <<"g", "i", "t", "h", "u", "b">>
    [] name = "facebook" -> <<"f", "a", "c", "e", "b", "o", "o", "k">>
    [] name = "twitter" -> <<"t", "w", "i", "t", "t", "e", "r">>
    [] name = "email" -> <<"e", "m", "a", "i", "l">>

\* the default comparison of Array.prototype.sort: by code units, a proper
\* prefix first
RECURSIVE UnitsBefore(_, _)
UnitsBefore(x, y) ==
  IF Len(y) = 0 THEN FALSE
  ELSE IF Len(x) = 0 THEN TRUE
  ELSE IF CodeUnit(Head(x)) # CodeUnit(Head(y))
       THEN CodeUnit(Head(x)) < CodeUnit(Head(y))
  ELSE UnitsBefore(Tail(x), Tail(y))

Before(a, b) == UnitsBefore(Spelling(a), Spelling(b))

\* one name put into a sorted list
RECURSIVE Insert(_, _)
Insert(name, list) ==
  IF Len(list) = 0 THEN <<name>>
  ELSE IF Before(name, Head(list)) THEN <<name>> \o list
  ELSE <<Head(list)>> \o Insert(name, Tail(list))

\* this.strategies.sort()
RECURSIVE sort(_)
sort(list) ==
  IF Len(list) = 0 THEN <<>> ELSE Insert(Head(list), sort(Tail(list)))

\* this.strategies.unshift(x)
unshift(list, x) == <<x>> \o list

\* what the database holds for a strategy: settings or null
get_passport_settings(m, strategy) ==
  IF strategy = "site_conf"
  THEN (IF m.site_conf = "null" THEN [type |-> "null", auth |-> "undefined"]
        ELSE [type |-> "object",
              auth |-> IF m.site_conf = "auth" THEN "url" ELSE "undefined"])
  ELSE (IF strategy \in m.configured THEN [type |-> "object", auth |-> "undefined"]
        ELSE [type |-> "null", auth |-> "undefined"])

\* callback2(f, opts): the promise of the answer
callback2(answer) == [type |-> "promise", answer |-> answer]

\* x != null
NotNull(x) == x.type \notin {"null", "undefined"}

\* get_conf, which has no await: settings is the promise callback2 returned
\* and is what the test reads; the caller awaits the promise returned
get_conf(m, strategy) ==
  LET settings == callback2(get_passport_settings(m, strategy)) IN
  IF NotNull(settings)
  THEN (IF strategy # "site_conf"
        THEN [m EXCEPT !.strategies = Append(m.strategies, strategy)]
        ELSE m)
  ELSE m

\* init_strategy up to its await of get_conf, for the strategies from the
\* k-th on, in the order of the calls in init
RECURSIVE init_strategies(_, _)
init_strategies(m, k) ==
  IF k > Len(StrategyConfs) THEN m
  ELSE init_strategies(
         [get_conf(m, StrategyConfs[k]) EXCEPT !.pending = @ \cup {StrategyConfs[k]}],
         k + 1)

\* a manager is constructed over a database with some settings
InitManager ==
  /\ InitStore
  /\ codec = NoCodec
  /\ hashed = NoCall
  /\ names = NoNames
  /\ checked = NoCheck
  /\ jupyter = NoStore
  /\ \E site_conf \in SiteConfs, configured \in SUBSET Strategies :
       manager = [NoManager EXCEPT !.pc = "constructed",
                                   !.site_conf = site_conf,
                                   !.configured = configured]

\* init up to its await of get_conf("site_conf"): the routes are set
CallInit ==
  /\ manager.pc = "constructed"
  /\ manager' = [get_conf(manager, "site_conf") EXCEPT !.pc = "site_conf",
                                                       !.route = TRUE]
  /\ UNCHANGED <<accounts, passports, remember_me, banned, api_keys, att, codec,
                 hashed, names, checked, jupyter>>

\* init behind the await: auth_url is set, the strategies are called and
\* not awaited, the list is sorted and "email" put first; init returns
SiteConfAnswer ==
  /\ manager.pc = "site_conf"
  /\ LET site_conf == get_passport_settings(manager, "site_conf")
         auth_url == IF NotNull(site_conf) THEN site_conf.auth ELSE "undefined"
         m == [manager EXCEPT !.auth_url = auth_url]
         called == IF auth_url # "undefined" THEN init_strategies(m, 1) ELSE m
     IN manager' = [called EXCEPT
                      !.strategies = unshift(sort(called.strategies), "email"),
                      !.pc = "returned"]
  /\ UNCHANGED <<accounts, passports, remember_me, banned, api_keys, att, codec,
                 hashed, names, checked, jupyter>>

\* init_strategy behind its await of get_conf: it throws when conf is null
\* and sets up the strategy and its routes otherwise
StrategyConfAnswer ==
  /\ \E strategy \in manager.pending :
       LET conf == get_passport_settings(manager, strategy) IN
       manager' = IF NotNull(conf)
                  THEN [manager EXCEPT !.pending = @ \ {strategy},
                                       !.used = @ \cup {strategy}]
                  ELSE [manager EXCEPT !.pending = @ \ {strategy},
                                       !.failed = @ \cup {strategy}]
  /\ UNCHANGED <<accounts, passports, remember_me, banned, api_keys, att, codec,
                 hashed, names, checked, jupyter>>

\* GET /auth/strategies: res.json(this.strategies)
ServeStrategies ==
  /\ manager.route
  /\ manager.serves < MaxServes
  /\ manager' = [manager EXCEPT !.served = manager.strategies,
                                !.served_at = manager.pc,
                                !.serves = @ + 1]
  /\ UNCHANGED <<accounts, passports, remember_me, banned, api_keys, att, codec,
                 hashed, names, checked, jupyter>>

NextManager == CallInit \/ SiteConfAnswer \/ StrategyConfAnswer \/ ServeStrategies

SpecManager == InitManager /\ [][NextManager]_vars

(* -------------------------- is_password_correct ----------------------- *)

\* the passwords given to is_password_correct
Passwords == {<<>>, <<"pw">>, <<"guess">>}

\* the hash stored for the password "pw"
HashOfPw == password_hash(<<"pw">>, <<"p">>)

\* opts.password_hash as given: none, the empty string, a hash, a string
\* that is no hash
HashArgs == {Undefined, <<>>, HashOfPw, <<"x">>}

\* the password_hash column of the account: none or a hash
StoredHashes == {Undefined, HashOfPw}

\* an invocation of opts.cb
Cb(err, correct) == [err |-> err, correct |-> correct]

\* a verify for which an account without hash matches every password
verify_empty_matches(password, hashedPassword) ==
  IF hashedPassword \in {Undefined, Null, <<>>} THEN TRUE
  ELSE IF password \in {Undefined, Null, <<>>} THEN FALSE
  ELSE LET parts == Split(hashedPassword) IN
       IF Len(parts) # 4 THEN FALSE
       ELSE LET r == generate_hash(parts[1], parts[2], Str(parts[3]), password)
            IN r.ok /\ r.hash = hashedPassword

\* password_hash_library.verify: false without password or without hash
\* and for a hash that has not four fields; otherwise the hash of the
\* password under the fields of the hash is compared with the hash
verify(password, hashedPassword) ==
  IF password \in {Undefined, Null, <<>>} \/ hashedPassword \in {Undefined, Null, <<>>}
  THEN FALSE
  ELSE LET parts == Split(hashedPassword) IN
       IF Len(parts) # 4 THEN FALSE
       ELSE LET r == generate_hash(parts[1], parts[2], Str(parts[3]), password)
            IN r.ok /\ r.hash = hashedPassword

\* true and false as given to opts.cb
Bool(b) == IF b THEN "true" ELSE "false"

\* is_password_correct is called for an account whose password_hash column
\* is one of StoredHashes
InitCheck ==
  /\ InitStore
  /\ codec = NoCodec
  /\ hashed = NoCall
  /\ names = NoNames
  /\ manager = NoManager
  /\ jupyter = NoStore
  /\ \E password \in Passwords, hash \in HashArgs, account_id \in {NoAccount, 1},
        email_address \in {NoEmail, "a@x.com"}, allow \in BOOLEAN,
        stored \in StoredHashes :
       checked = [NoCheck EXCEPT !.pc = "called", !.password = password,
                                 !.password_hash = hash,
                                 !.account_id = account_id,
                                 !.email_address = email_address,
                                 !.allow_empty_password = allow,
                                 !.stored = stored]

\* is_password_correct up to its await of get_account
IsPasswordCorrect ==
  /\ checked.pc = "called"
  /\ checked' =
       IF checked.password_hash \notin {Undefined, Null}
       THEN [checked EXCEPT
               !.cbs = Append(@, Cb("undefined",
                                    Bool(verify(checked.password,
                                                checked.password_hash)))),
               !.pc = "returned"]
       ELSE IF checked.account_id # NoAccount \/ checked.email_address # NoEmail
       THEN [checked EXCEPT !.pc = "get_account"]
       ELSE [checked EXCEPT
               !.cbs = Append(@, Cb("One of password_hash, account_id, or email_address must be specified.",
                                    "undefined")),
               !.pc = "returned"]
  /\ UNCHANGED <<accounts, passports, remember_me, banned, api_keys, att, codec,
                 hashed, names, manager, jupyter>>

\* get_account throws: the catch block calls cb with the error
GetAccountFails ==
  /\ checked.pc = "get_account"
  /\ checked' = [checked EXCEPT !.cbs = Append(@, Cb(StoreError, "undefined")),
                                !.pc = "returned"]
  /\ UNCHANGED <<accounts, passports, remember_me, banned, api_keys, att, codec,
                 hashed, names, manager, jupyter>>

\* get_account answers the account: change_password is called for an
\* account without hash when that is allowed and password and account_id
\* are given; otherwise cb is called
GetAccount ==
  /\ checked.pc = "get_account"
  /\ LET c == [checked EXCEPT !.loaded = TRUE] IN
     checked' =
       IF c.allow_empty_password /\ c.stored \in {Undefined, Null, <<>>}
       THEN (IF c.password # <<>> /\ c.account_id # NoAccount
             THEN [c EXCEPT !.pc = "change_password"]
             ELSE [c EXCEPT !.cbs = Append(@, Cb("undefined", "true")),
                            !.pc = "returned"])
       ELSE [c EXCEPT
               !.cbs = Append(@, Cb("undefined", Bool(verify(c.password, c.stored)))),
               !.pc = "returned"]
  /\ UNCHANGED <<accounts, passports, remember_me, banned, api_keys, att, codec,
                 hashed, names, manager, jupyter>>

\* change_password calls its cb, with an error or without
ChangePassword ==
  /\ checked.pc = "change_password"
  /\ \E err \in {"undefined", StoreError} :
       checked' = [checked EXCEPT
                     !.cbs = Append(@, Cb(err, "true")),
                     !.stored = IF err = "undefined"
                                THEN password_hash(checked.password, <<"q">>)
                                ELSE @,
                     !.pc = "returned"]
  /\ UNCHANGED <<accounts, passports, remember_me, banned, api_keys, att, codec,
                 hashed, names, manager, jupyter>>

NextCheck == IsPasswordCorrect \/ GetAccountFails \/ GetAccount \/ ChangePassword

SpecCheck == InitCheck /\ [][NextCheck]_vars

(* ----------------------- JupyterStore.get_cell_id --------------------- *)

MaxCells == 3

MaxDelta == 3

\* the ids of the cells of a notebook, and an id that is of no cell
CellIds == {"a", "b", "c"}

OtherId == "z"

\* the lists of at most MaxCells cells, each cell once
CellLists ==
  {list \in UNION {[1..n -> CellIds] : n \in 0..MaxCells} :
     \A i, j \in 1..Len(list) : i # j => list[i] # list[j]}

\* List.size
size(list) == Len(list)

\* List.indexOf(id): the first position of id, counted from 0, or -1
indexOf(list, id) ==
  IF \E k \in 1..Len(list) : list[k] = id
  THEN (CHOOSE k \in 1..Len(list) :
          list[k] = id /\ \A j \in 1..(k - 1) : list[j] # id) - 1
  ELSE -1

\* List.get(i): a negative i counts from the end of the list
ListGet(list, i) ==
  LET k == IF i < 0 THEN size(list) + i ELSE i IN
  IF k < 0 \/ k >= size(list) THEN NoCell ELSE list[k + 1]

\* get_cell_index: [defined |-> FALSE] for undefined
get_cell_index(store, id) ==
  IF ~store.cell_list.known THEN [defined |-> FALSE, i |-> 0]
  ELSE IF id = NoCell THEN [defined |-> FALSE, i |-> 0]
  ELSE LET i == indexOf(store.cell_list.ids, id) IN
       IF i = -1 THEN [defined |-> FALSE, i |-> 0]
       ELSE [defined |-> TRUE, i |-> i]

get_cur_cell_index(store) == get_cell_index(store, store.cur_id)

\* a get_cell_id that leaves the position to List.get
get_cell_id_unchecked(store, delta, id) ==
  LET found == IF id # NoCell THEN get_cell_index(store, id)
               ELSE get_cur_cell_index(store)
  IN IF ~found.defined THEN NoCell
     ELSE LET i == found.i + delta IN
          IF ~store.cell_list.known THEN NoCell
          ELSE ListGet(store.cell_list.ids, i)

get_cell_id(store, delta, id) ==
  LET found == IF id # NoCell THEN get_cell_index(store, id)
               ELSE get_cur_cell_index(store)
  IN IF ~found.defined THEN NoCell
     ELSE LET i == found.i + delta IN
          IF ~store.cell_list.known \/ i < 0 \/ i >= size(store.cell_list.ids)
          THEN NoCell
          ELSE ListGet(store.cell_list.ids, i)

\* a store with a cell list, known or not, and a current cell or none;
\* get_cell_id will be called with delta and id
InitJupyter ==
  /\ InitStore
  /\ codec = NoCodec
  /\ hashed = NoCall
  /\ names = NoNames
  /\ manager = NoManager
  /\ checked = NoCheck
  /\ \E known \in BOOLEAN, ids \in CellLists,
        cur_id \in CellIds \cup {OtherId, NoCell},
        id \in CellIds \cup {OtherId, NoCell},
        delta \in (-MaxDelta)..MaxDelta :
       /\ ~known => ids = <<>>
       /\ jupyter = [NoStore EXCEPT !.pc = "ready",
                                    !.cell_list = [known |-> known, ids |-> ids],
                                    !.cur_id = cur_id, !.id = id,
                                    !.delta = delta]

\* get_cell_id(delta, id) is called and returns
GetCellId ==
  /\ jupyter.pc = "ready"
  /\ jupyter' = [jupyter EXCEPT
                   !.result = get_cell_id(jupyter, jupyter.delta, jupyter.id),
                   !.pc = "returned"]
  /\ UNCHANGED <<accounts, passports, remember_me, banned, api_keys, att, codec,
                 hashed, names, manager, checked>>

NextJupyter == GetCellId

SpecJupyter == InitJupyter /\ [][NextJupyter]_vars

(* ------------------------- the names of a login ----------------------- *)

\* characters per full name
MaxNameLen == 4

NameSymbols == {"J", " ", "\t"}

FullNames == UNION {[1..n -> NameSymbols] : n \in 0..MaxNameLen} \cup {Undefined}

InitNames ==
  /\ InitStore
  /\ codec = NoCodec
  /\ hashed = NoCall
  /\ manager = NoManager
  /\ checked = NoCheck
  /\ jupyter = NoStore
  /\ \E full_name \in FullNames, first_name \in {Undefined, Null, <<>>, <<"F">>},
        last_name \in {Undefined, <<"L">>} :
       names = [pc |-> "called", full_name |-> full_name,
                first_name |-> first_name, last_name |-> last_name,
                given |-> <<first_name, last_name>>]

\* opts.first_name and opts.last_name after passport_login derived them
derive_names(opts) ==
  LET split == /\ opts.full_name \notin {Undefined, Null}
               /\ opts.first_name \in {Undefined, Null}
               /\ opts.last_name \in {Undefined, Null}
      name == opts.full_name
      i == lastIndexOf(name, " ")
      first_name == IF ~split THEN opts.first_name
                    ELSE IF i = -1 THEN <<>>
                    ELSE trim(slice(name, 0, i))
      last_name == IF ~split THEN opts.last_name
                   ELSE IF i = -1 THEN name
                   ELSE trim(slice(name, i, Len(name)))
  IN [opts EXCEPT
        !.first_name = IF first_name \in {Undefined, Null} THEN <<>> ELSE first_name,
        !.last_name = IF last_name \in {Undefined, Null} THEN <<>> ELSE last_name]

\* passport_login derives the names
DeriveNames ==
  /\ names.pc = "called"
  /\ names' = [derive_names(names) EXCEPT !.pc = "derived"]
  /\ UNCHANGED <<accounts, passports, remember_me, banned, api_keys, att, codec,
                 hashed, manager, checked, jupyter>>

NextNames == DeriveNames

SpecNames == InitNames /\ [][NextNames]_vars

(* ------------------------ generate_hash on its own -------------------- *)

\* the largest magnitude of iterations a call is given as a number
MaxIterations == 3

\* algorithm arguments: supported, unknown to crypto, undefined, null
AlgorithmArgs == SupportedAlgorithms \cup {<<"md0">>, Undefined, Null}

SaltArgs == Salts \cup {<<>>, Undefined, Null}

IterationsArgs ==
  {Num(n) : n \in (-MaxIterations)..MaxIterations}
    \cup {Str(s) : s \in {<<>>, <<"0">>, <<"2">>, <<"-", "1">>, <<"x">>}}
    \cup {NoIterations}

PasswordArgs == {SessionId(1), <<"guess">>}

InitHash ==
  /\ InitStore
  /\ codec = NoCodec
  /\ names = NoNames
  /\ manager = NoManager
  /\ checked = NoCheck
  /\ jupyter = NoStore
  /\ \E algorithm \in AlgorithmArgs, salt \in SaltArgs,
        iterations \in IterationsArgs, password \in PasswordArgs :
       hashed = [NoCall EXCEPT !.pc = "called", !.algorithm = algorithm,
                               !.salt = salt, !.iterations = iterations,
                               !.password = password]

\* the call returns a hash or throws
GenerateHash ==
  /\ hashed.pc = "called"
  /\ hashed' = [hashed EXCEPT
                  !.pc = "returned",
                  !.result = generate_hash(hashed.algorithm, hashed.salt,
                                           hashed.iterations, hashed.password)]
  /\ UNCHANGED <<accounts, passports, remember_me, banned, api_keys, att, codec, names, manager, checked, jupyter>>

\* the hash is read as check_remember_me_cookie reads a cookie: its first
\* three fields are given to generate_hash again, with the same password
\* and with every other password
Rehash ==
  /\ hashed.pc = "returned"
  /\ hashed.result.ok
  /\ LET x == Split(hashed.result.hash)
     IN hashed' = [hashed EXCEPT
                     !.pc = "rehashed",
                     !.again = generate_hash(x[1], x[2], Str(x[3]), hashed.password),
                     !.other = {generate_hash(x[1], x[2], Str(x[3]), password) :
                                  password \in PasswordArgs \ {hashed.password}}]
  /\ UNCHANGED <<accounts, passports, remember_me, banned, api_keys, att, codec, names, manager, checked, jupyter>>

NextHash == GenerateHash \/ Rehash

SpecHash == InitHash /\ [][NextHash]_vars

(* --------------------------- the properties --------------------------- *)

Link(a) == [strategy |-> a.strategy, id |-> a.id, account_id |-> a.account_id]

Done(a) == a.pc = "done"

Rejected(a) == a.sent # "none"

\* the variants of a login that was not rejected
IsCreated(a) ==
  a.new_account_created /\ ~a.linked /\ a.found = NoAccount /\ Link(a) \in passports

IsLinked(a) ==
  a.linked /\ ~a.new_account_created /\ a.account_id = a.rm_account
  /\ Link(a) \in passports

IsSignedIn(a) ==
  ~a.linked /\ ~a.new_account_created /\ a.found = a.account_id
  /\ Link(a) \in passports

ConflictError == "already attached to another account"

EmailError == "There is already an account with email address"

\* C1: a login is rejected or ends as exactly one of Created, Linked and
\* SignedIn for an account of the store; a rejected login saved no
\* remember-me record and set no remember-me cookie; no login both sent an
\* error and redirected
C1_OneOutcome ==
  \A t \in Attempts :
    LET a == att[t] IN
    /\ ~(Rejected(a) /\ a.redirected)
    /\ Rejected(a) => Done(a) /\ ~a.saved /\ a.cookie_set = <<>>
    /\ (Done(a) /\ ~Rejected(a)) =>
         /\ \E acc \in accounts : acc.account_id = a.account_id
         /\ Cardinality({k \in {"Created", "Linked", "SignedIn"} :
                           \/ k = "Created" /\ IsCreated(a)
                           \/ k = "Linked" /\ IsLinked(a)
                           \/ k = "SignedIn" /\ IsSignedIn(a)}) = 1

\* C1 witness: one login was rejected, another ended for an account
C1_Witness ==
  \E t, u \in Attempts :
    /\ Done(att[t]) /\ Rejected(att[t])
    /\ Done(att[u]) /\ ~Rejected(att[u]) /\ att[u].saved

LinksUnique ==
  \A p, q \in passports :
    (p.strategy = q.strategy /\ p.id = q.id) => p.account_id = q.account_id

\* C2: every pair is linked to at most one account, and no step removes a
\* link or changes the account of one
C2_LinkImmutable == [][LinksUnique /\ LinksUnique' /\ passports \subseteq passports']_vars

\* C2 witness: a login for a pair that was linked when it began has ended
C2_Witness ==
  \E t \in Attempts : Done(att[t]) /\ att[t].pre_link # NoAccount

UnlinkedWithTakenEmail(a) ==
  /\ a.pc # "idle"
  /\ a.remember_me_cookie = <<>>
  /\ a.found = NoAccount
  /\ a.taken # {}

\* C4: such a login is rejected: it creates no account and no link, never
\* gets past the email probes and saves no remember-me record
C4_NoSilentMerge ==
  \A t \in Attempts :
    LET a == att[t] IN
    UnlinkedWithTakenEmail(a) =>
      /\ ~a.new_account_created /\ ~a.linked /\ ~a.saved
      /\ a.pc \in {"passport_exists", "check_existing_emails", "done"}
      /\ Done(a) => Rejected(a)

\* C4 witness: such a login was rejected for the email of the account
C4_Witness ==
  \E t \in Attempts :
    /\ UnlinkedWithTakenEmail(att[t])
    /\ Done(att[t])
    /\ att[t].sent = EmailError
    /\ att[t].account_id = account_exists(att[t].email_address)

\* the case of C5: no cookie, and the pair was linked when the login began
ReLogin(a) ==
  /\ a.pc # "idle"
  /\ a.remember_me_cookie = <<>>
  /\ a.pre_link # NoAccount

\* C5 as claimed: every such login ends as SignedIn with the linked account
C5_AlwaysSignedIn ==
  \A t \in Attempts :
    LET a == att[t] IN
    (ReLogin(a) /\ Done(a)) =>
      /\ ~Rejected(a) /\ IsSignedIn(a) /\ a.account_id = a.pre_link
      /\ a.probed = 0

\* C5 amended: such a login resolves to the linked account, probes no
\* email and creates no account and no link; it ends as SignedIn unless
\* the account is banned, and then it is rejected as banned
C5_ReLogin ==
  \A t \in Attempts :
    LET a == att[t] IN
    ReLogin(a) =>
      /\ a.probed = 0 /\ ~a.new_account_created /\ ~a.linked
      /\ a.pc # "passport_exists" =>
           a.account_id = a.pre_link /\ a.found = a.pre_link
      /\ Done(a) =>
           \/ ~Rejected(a) /\ IsSignedIn(a) /\ a.saved
           \/ a.sent = "BANNED" /\ a.is_banned

\* C5 witness: a login of a linked pair ended as SignedIn
C5_Witness ==
  \E t \in Attempts :
    ReLogin(att[t]) /\ Done(att[t]) /\ ~Rejected(att[t]) /\ IsSignedIn(att[t])

C7_RoundTrip ==
  codec.pc = "decoded" =>
    /\ Len(codec.fields) = 4 =>
         codec.x = codec.fields /\ codec.error = "none"
    /\ (Len(codec.fields) # 4 /\ codec.value # <<>>) =>
         codec.error = "badly formatted remember_me cookie"
    /\ (Len(codec.fields) \in {3, 5}) =>
         codec.error = "badly formatted remember_me cookie"

\* C7 witness: four fields, one of them empty, came back unchanged
C7_Witness ==
  /\ codec.pc = "decoded"
  /\ Len(codec.fields) = 4
  /\ codec.fields[2] = <<>>
  /\ codec.x = codec.fields

\* C8 as claimed: a login without cookie and link whose emails belong to
\* no account ends as Created with the first email and a new cookie
C8_Created ==
  \A t \in Attempts :
    LET a == att[t] IN
    (/\ Done(a) /\ a.remember_me_cookie = <<>>
     /\ a.pre_link = NoAccount /\ a.found = NoAccount
     /\ a.emails # NoEmails /\ Len(a.emails) > 0 /\ a.taken = {}) =>
      /\ ~Rejected(a) /\ IsCreated(a)
      /\ a.email_address = a.emails[1]
      /\ a.saved /\ a.cookie_set # <<>>

\* the case of C9: a valid cookie, and the pair had no link when it was
\* looked up nor when create_passport ran
LinkingCase(a) ==
  /\ a.has_valid_remember_me
  /\ a.pc \notin {"idle", "get_remember_me", "passport_exists"}
  /\ a.found = NoAccount
  /\ a.sent # "AlreadyExists"

ConflictCase(a) ==
  /\ a.has_valid_remember_me
  /\ a.found # NoAccount
  /\ a.found # a.rm_account

\* C10: such a login is rejected with the conflict error; the link still
\* points to the other account and the login created no link, account,
\* API key or remember-me record
C10_Conflict ==
  \A t \in Attempts :
    LET a == att[t] IN
    ConflictCase(a) =>
      /\ Done(a) /\ a.sent = ConflictError
      /\ ~a.linked /\ ~a.new_account_created /\ ~a.saved
      /\ a.action = "undefined" /\ a.api_key = 0
      /\ {p \in passports : p.strategy = a.strategy /\ p.id = a.id}
           = {[strategy |-> a.strategy, id |-> a.id, account_id |-> a.found]}

\* C10 witness: a login that asked for an API key was rejected so
C10_Witness ==
  \E t \in Attempts :
    ConflictCase(att[t]) /\ att[t].get_api_key /\ att[t].sent = ConflictError

\* the case of C11: a cookie is present and does not split into 4 fields
Malformed(a) ==
  /\ a.pc # "idle"
  /\ a.remember_me_cookie # <<>>
  /\ Len(Split(a.remember_me_cookie)) # 4

\* C11: a login with such a cookie is rejected as badly formatted before
\* its first datastore call: the datastore answered no call of the login,
\* and the login resolved no account, created no link, account, API key
\* or remember-me record and set no cookie
C11_MalformedIsFatal ==
  \A t \in Attempts :
    LET a == att[t] IN
    Malformed(a) =>
      /\ Done(a) /\ a.sent = "badly formatted remember_me cookie"
      /\ a.db = <<>>
      /\ a.account_id = NoAccount /\ ~a.has_valid_remember_me
      /\ ~a.linked /\ ~a.new_account_created /\ ~a.saved
      /\ a.api_key = 0 /\ a.cookie_set = <<>>

\* C11 witness: a login with a three-field cookie for a pair that was
\* linked when it began was rejected, after another login ran to its end
C11_Witness ==
  \E t, u \in Attempts :
    /\ Malformed(att[t]) /\ Done(att[t]) /\ att[t].pre_link # NoAccount
    /\ Done(att[u]) /\ att[u].db # <<>>

\* the elements of a sequence
Range(s) == {s[i] : i \in 1..Len(s)}

\* the case of C12: a cookie of four fields for which get_remember_me
\* answered with no record or with an error
Unresolvable(a) ==
  /\ a.remember_me_cookie # <<>>
  /\ Len(Split(a.remember_me_cookie)) = 4
  /\ "get_remember_me" \in Range(a.db)
  /\ a.rm_account = NoAccount

\* C12 as claimed: such a login is not rejected for its cookie: it goes on
\* to look up the link as a caller who is not authenticated
C12_NotFatal ==
  \A t \in Attempts :
    LET a == att[t] IN
    Unresolvable(a) =>
      /\ ~a.has_valid_remember_me
      /\ a.sent \notin {"no valid remember_me token", StoreError}
      /\ Done(a) => "passport_exists" \in Range(a.db)

\* the case of C13: passport_exists found no link for a caller without a
\* valid cookie, and an email of the assertion belongs to an account
UnresolvedWithTakenEmail(a) ==
  /\ "passport_exists" \in Range(a.db)
  /\ a.found = NoAccount
  /\ ~a.has_valid_remember_me
  /\ a.taken # {}

\* C13 as claimed: such a login is rejected with the error that names an
\* email of the assertion that belongs to an account, whatever the order
\* in which the probes are answered
C13_EmailRejection ==
  \A t \in Attempts :
    LET a == att[t] IN
    (UnresolvedWithTakenEmail(a) /\ Done(a)) =>
      /\ a.sent = EmailError
      /\ a.email_address \in a.taken

\* how often the datastore answered this call of the login
Calls(a, call) == Cardinality({i \in 1..Len(a.db) : a.db[i] = call})

\* the hash check_remember_me_cookie computes from a cookie of four fields
CookieHash(value) ==
  LET x == Split(value) IN generate_hash(x[1], x[2], Str(x[3]), x[4]).hash

\* C14: a login that ended without rejection and without a valid cookie
\* saved exactly one remember-me record, for its account and under a hash
\* no other login used, and set the cookie whose hash is that record's; a
\* login that ended with a valid cookie saved no record and set no cookie
C14_OneNewSession ==
  \A t \in Attempts :
    LET a == att[t] IN
    (Done(a) /\ ~Rejected(a)) =>
      IF a.has_valid_remember_me
      THEN /\ Calls(a, "save_remember_me") = 0 /\ ~a.saved
           /\ a.cookie_set = <<>>
      ELSE /\ Calls(a, "save_remember_me") = 1 /\ a.saved
           /\ Cardinality({r \in remember_me :
                              /\ r.hash = a.hash_session_id
                              /\ r.account_id = a.account_id}) = 1
           /\ \A u \in Attempts \ {t} : att[u].hash_session_id # a.hash_session_id
           /\ a.cookie_set # <<>>
           /\ Len(Split(a.cookie_set)) = 4
           /\ CookieHash(a.cookie_set) = a.hash_session_id

\* C14 witness: a login without cookie ended with a new record and cookie,
\* and a login that presented this cookie ended without rejection
C14_Witness ==
  \E t, u \in Attempts :
    /\ Done(att[t]) /\ ~Rejected(att[t]) /\ ~att[t].has_valid_remember_me
    /\ att[t].saved
    /\ Done(att[u]) /\ ~Rejected(att[u]) /\ att[u].has_valid_remember_me
    /\ att[u].remember_me_cookie = att[t].cookie_set

\* C15 as claimed: the datastore answers an api_key_action of a login only
\* after it answered the login's is_banned_user and save_remember_me (if
\* the login saves a record); a login rejected as banned made no
\* api_key_action and holds no API key
C15_KeyAfterBanCheck ==
  \A t \in Attempts :
    LET a == att[t] IN
    /\ \A i \in 1..Len(a.db) :
         a.db[i] = "api_key_action" =>
           /\ \E j \in 1..(i - 1) : a.db[j] = "is_banned_user"
           /\ \A j \in (i + 1)..Len(a.db) : a.db[j] # "save_remember_me"
    /\ a.sent = "BANNED" => Calls(a, "api_key_action") = 0 /\ a.api_key = 0

\* C16 as claimed: for iterations 0 or negative the call returns what it
\* returns for iterations 1: one round of the keyed hash, and 1 as the
\* iterations field
C16_BelowOneIsOne ==
  (/\ hashed.pc = "returned"
   /\ hashed.iterations.type = "number" /\ hashed.iterations.n < 1
   /\ hashed.result.ok) =>
    /\ hashed.result = generate_hash(hashed.algorithm, hashed.salt, Num(1),
                                     hashed.password)
    /\ hashed.result.hash =
         Join(<<hashed.algorithm, hashed.salt, <<"1">>,
                Hmac(hashed.algorithm, hashed.salt, hashed.password)>>)

\* the arguments of C17: the algorithm or the salt is undefined or null
Absent(v) == v \in {Undefined, Null}

\* C17: a call without algorithm or without salt throws and returns no
\* hash, whatever iterations and password are
C17_MandatoryArguments ==
  (/\ hashed.pc = "returned"
   /\ Absent(hashed.algorithm) \/ Absent(hashed.salt)) =>
    ~hashed.result.ok /\ hashed.result.hash = <<>>

\* C17 witness: a call with a supported algorithm and a null salt threw
C17_Witness ==
  /\ hashed.pc = "returned"
  /\ hashed.algorithm = HASH_ALGORITHM /\ hashed.salt = Null
  /\ hashed.iterations = Num(MaxIterations)
  /\ ~hashed.result.ok

\* the case of C18: create_passport of the login was answered and made no
\* link, because another login had linked the pair in between
LostLinkRace(a) ==
  /\ "create_passport" \in Range(a.db)
  /\ ~a.linked

\* C18 as claimed: such a login is not rejected with the error of the
\* store: it ends as SignedIn when the pair is linked to the account of
\* its cookie and is rejected with the conflict error otherwise
C18_RaceRecovered ==
  \A t \in Attempts :
    LET a == att[t] IN
    LostLinkRace(a) =>
      /\ a.sent # "AlreadyExists"
      /\ Done(a) =>
           IF passport_exists(a.strategy, a.id) = a.rm_account
           THEN a.sent \in {"none", "BANNED"}
           ELSE a.sent = ConflictError

C20_ExpiredNeverAuthenticates ==
  \A t \in Attempts :
    LET a == att[t] IN
    a.rm_expired =>
      /\ ~a.has_valid_remember_me
      /\ a.rm_account = NoAccount

\* the place of a datastore call in the order of passport_login's steps
Rank(call) ==
  CASE call = "get_remember_me" -> 1
    [] call = "passport_exists" -> 2
    [] call = "create_passport" -> 3
    [] call = "account_exists" -> 4
    [] call = "create_account" -> 5
    [] call = "api_key_action" -> 6
    [] call = "is_banned_user" -> 7
    [] call = "save_remember_me" -> 8

\* the datastore call whose step sends this error
RejectingCall(err) ==
  CASE err \in {"no valid remember_me token", StoreError} -> "get_remember_me"
    [] err = ConflictError -> "passport_exists"
    [] err \in {EmailError, "check_email: no _account_id"} -> "account_exists"
    [] err = "BANNED" -> "is_banned_user"
    [] OTHER -> "none"

\* calls a step may make more than once: one probe per email, and a
\* regenerate after an api_key_action that found no key
Repeatable == {"account_exists", "api_key_action"}

SeveralTaken(a) ==
  /\ a.probed > 0
  /\ Cardinality(a.taken) >= 2

\* C22 as claimed: once the first probe of such a login has run its code
\* behind the await, the login is rejected with the error that names this
\* probe's email, the recorded account and email are this probe's, and one
\* answer was sent
C22_FirstProbeDecides ==
  \A t \in Attempts :
    LET a == att[t] IN
    (SeveralTaken(a) /\ a.first_probe # 0) =>
      /\ a.sent = EmailError
      /\ a.email_address = a.emails[a.first_probe]
      /\ a.account_id = account_exists(a.emails[a.first_probe])
      /\ a.responses = 1

\* C23: the cookie set for the session of the first login hashes to the
\* hash its record was saved under, and a later login that presents it
\* before the record expires is authenticated for the record's account; a
\* cookie of four fields that differs from it hashes to another hash, and
\* a login is authenticated only by the cookie of a stored record
C23_IssueThenValidate ==
  LET a == att[1]
      b == att[2]
  IN (a.saved /\ b.pc # "idle") =>
       /\ CookieHash(a.cookie_set) = a.hash_session_id
       /\ (CookieHash(b.remember_me_cookie) = a.hash_session_id)
            <=> (b.remember_me_cookie = a.cookie_set)
       /\ (b.remember_me_cookie = a.cookie_set /\ b.pc # "get_remember_me") =>
            /\ b.has_valid_remember_me
            /\ b.account_id = a.account_id
            /\ b.pc = "passport_exists"
       /\ b.has_valid_remember_me =>
            b.remember_me_cookie \in {a.cookie_set, InitialCookie}

\* C23 witness: a login was authenticated by the cookie of a session that
\* was issued with the second salt
C23_Witness ==
  /\ att[1].saved
  /\ Split(att[1].cookie_set)[2] = <<"q">>
  /\ att[2].remember_me_cookie = att[1].cookie_set
  /\ att[2].has_valid_remember_me

\* C24: a login that created an account or a link and was then rejected
\* as banned leaves them in the store: the pair stays linked to the
\* login's account and the account stays, with the email it was created
\* with
C24_NoRollback ==
  \A t \in Attempts :
    LET a == att[t] IN
    (a.sent = "BANNED" /\ (a.new_account_created \/ a.linked)) =>
      /\ Link(a) \in passports
      /\ \E acc \in accounts :
           /\ acc.account_id = a.account_id
           /\ a.new_account_created => acc.email_address = a.email_address

\* C24 witness: a login with a valid cookie linked a pair and was rejected
\* as banned, and a later login without cookie found the link
C24_Witness ==
  \E t, u \in Attempts :
    /\ att[t].sent = "BANNED" /\ att[t].linked
    /\ att[u].remember_me_cookie = <<>>
    /\ att[u].strategy = att[t].strategy /\ att[u].id = att[t].id
    /\ att[u].found = att[t].account_id /\ att[u].found # NoAccount

\* C25: a hash that generate_hash returned for an algorithm and a salt
\* without '$' is returned again for its own first three fields and the
\* same password, and for no other password
C25_SelfDescribing ==
  hashed.pc = "rehashed" =>
    /\ hashed.again = hashed.result
    /\ \A r \in hashed.other : r.ok /\ r.hash # hashed.result.hash

\* C25 witness: a hash made with the loop running downwards, and one made
\* without a round, came back
C25_Witness ==
  /\ hashed.pc = "rehashed"
  /\ hashed.iterations \in {Num(-2), Str(<<"x">>)}
  /\ hashed.salt = <<>>
  /\ hashed.again = hashed.result

\* a name field that was not supplied
NotSupplied(v) == v \in {Undefined, Null}

\* C26: when full_name alone is supplied and holds a space, it is cut at
\* its last space: last_name is the text behind it and first_name the text
\* before it, both trimmed; without a space first_name is empty and
\* last_name is full_name; when first_name or last_name is supplied, or no
\* full_name is, each supplied name is kept and each missing one is ""
C26_NameDerivation ==
  names.pc = "derived" =>
    LET given_first == names.given[1]
        given_last == names.given[2]
        name == names.full_name
    IN IF ~NotSupplied(name) /\ NotSupplied(given_first) /\ NotSupplied(given_last)
       THEN IF \A k \in 1..Len(name) : name[k] # " "
            THEN names.first_name = <<>> /\ names.last_name = name
            ELSE \E k \in 1..Len(name) :
                   /\ name[k] = " "
                   /\ \A j \in (k + 1)..Len(name) : name[j] # " "
                   /\ names.first_name = trim(SubSeq(name, 1, k - 1))
                   /\ names.last_name = trim(SubSeq(name, k + 1, Len(name)))
       ELSE /\ names.first_name = IF NotSupplied(given_first) THEN <<>> ELSE given_first
            /\ names.last_name = IF NotSupplied(given_last) THEN <<>> ELSE given_last

\* C26 witness: a full name with two spaces was cut at the second
C26_Witness ==
  /\ names.pc = "derived"
  /\ names.full_name = <<"J", " ", "J", " ">>
  /\ names.given = <<Undefined, Undefined>>
  /\ names.first_name = <<"J", " ", "J">>
  /\ names.last_name = <<>>

\* the positions of the valid entries of a list of emails as given
ValidPositions(raw) == {k \in 1..Len(raw) : is_valid_email_address(raw[k])}

\* the emails a login may use: those of its filtered list
Usable(a) == IF a.emails = NoEmails THEN {} ELSE Range(a.emails)

C28_CookieDeletedFirst ==
  \A t \in Attempts :
    LET a == att[t] IN
    a.pc # "idle" =>
      /\ a.api_cookie_deleted = a.get_api_key
      /\ ~a.get_api_key =>
           /\ Calls(a, "api_key_action") = 0
           /\ a.action = "undefined" /\ a.api_key = 0 /\ a.target = "login"

\* C28 witness: of two logins with the request cookie one ended rejected
\* and one not, both with the cookie deleted
C28_Witness ==
  \E t, u \in Attempts :
    /\ Done(att[t]) /\ Rejected(att[t]) /\ att[t].api_cookie_deleted
    /\ att[t].db # <<>>
    /\ Done(att[u]) /\ ~Rejected(att[u]) /\ att[u].api_cookie_deleted

\* the answer to the first api_key_action of a login: the key of its
\* account, made anew when the action is regenerate (0 for no key)
FirstKey(a) ==
  IF a.action = "regenerate" THEN api_keys[a.account_id] + 1
  ELSE api_keys[a.account_id]

\* a login with the request cookie whose ban check was answered holds a
\* key got by one or two api_key_action calls
C29_KeyHeld ==
  \A t \in Attempts :
    LET a == att[t] IN
    (a.get_api_key /\ Calls(a, "is_banned_user") > 0) =>
      /\ a.api_key > 0 /\ a.target = "authenticated"
      /\ Calls(a, "api_key_action") \in {1, 2}
      /\ Calls(a, "api_key_action") = 2 => a.action = "get"

\* the step of login t that answers its first api_key_action
C29_FirstAction(t) ==
  (att[t].pc = "api_key_action" /\ att'[t] # att[t]) =>
    /\ att[t].get_api_key /\ att[t].account_id # NoAccount
    /\ att[t].action = IF att[t].new_account_created THEN "regenerate" ELSE "get"
    /\ att'[t].account_id = att[t].account_id
    /\ att[t].action = "get" => api_keys' = api_keys
    /\ att[t].action = "regenerate" =>
         api_keys'[att[t].account_id] # api_keys[att[t].account_id]
    /\ IF FirstKey(att[t]) = 0
       THEN att'[t].pc = "api_key_regenerate" /\ att'[t].api_key = 0
       ELSE /\ att'[t].pc = "is_user_banned"
            /\ att'[t].api_key = FirstKey(att[t])
            /\ att'[t].target = "authenticated"

\* the step of login t that answers its second api_key_action
C29_Regenerate(t) ==
  (att[t].pc = "api_key_regenerate" /\ att'[t] # att[t]) =>
    /\ att'[t].account_id = att[t].account_id
    /\ att'[t].api_key = api_keys'[att[t].account_id]
    /\ att'[t].api_key # api_keys[att[t].account_id]
    /\ att'[t].api_key > 0
    /\ att'[t].target = "authenticated"

Sorted(list) ==
  \A i, j \in 2..Len(list) : i < j => Before(list[i], list[j])

\* C30 as claimed, in the part that reads: the list served once init has
\* returned starts with "email", is sorted behind it, and lists no strategy
\* without settings in the database
C30_ConfiguredOnly ==
  (manager.pc = "returned" /\ manager.served_at = "returned") =>
    /\ manager.served = manager.strategies
    /\ manager.served[1] = "email"
    /\ Sorted(manager.served)
    /\ \A i \in 2..Len(manager.served) : manager.served[i] \in manager.configured

\* what the code keeps of C30: the list starts with "email", is sorted
\* behind it, and is all four strategies or none
C30_Kept ==
  (manager.pc = "returned" /\ manager.served_at = "returned") =>
    /\ manager.served = manager.strategies
    /\ manager.served[1] = "email"
    /\ Sorted(manager.served)
    /\ Range(Tail(manager.served)) =
         IF manager.auth_url # "undefined" THEN Range(StrategyConfs) ELSE {}

\* the list of a manager whose init returned does not change
C30_Stable ==
  [][manager.pc = "returned" => manager'.strategies = manager.strategies]_vars

C32_NoWrapAround ==
  jupyter.pc = "returned" =>
    LET list == jupyter.cell_list.ids
        from == IF jupyter.id # NoCell THEN jupyter.id ELSE jupyter.cur_id
        at == {k \in 1..Len(list) : list[k] = from}
    IN IF ~jupyter.cell_list.known \/ from = NoCell \/ at = {}
       THEN jupyter.result = NoCell
       ELSE \A k \in at :
              IF k + jupyter.delta \in 1..Len(list)
              THEN jupyter.result = list[k + jupyter.delta]
              ELSE jupyter.result = NoCell

\* C32 witness: one position before the first cell of three there is no
\* cell, although the current cell is the last one
C32_Witness ==
  /\ jupyter.pc = "returned"
  /\ jupyter.cell_list = [known |-> TRUE, ids |-> <<"a", "b", "c">>]
  /\ jupyter.id = "a" /\ jupyter.cur_id = "c" /\ jupyter.delta = -1
  /\ jupyter.result = NoCell

\* the case of C33: a cookie of four fields for which generate_hash throws
Unhashable(a) ==
  /\ a.pc # "idle"
  /\ a.remember_me_cookie # <<>>
  /\ Len(Split(a.remember_me_cookie)) = 4
  /\ LET x == Split(a.remember_me_cookie)
     IN ~generate_hash(x[1], x[2], Str(x[3]), x[4]).ok

====
